---- MODULE Spec2Model ----
(***************************************************************************)
(* Model of the ngBaseDef bookkeeping done by the @Input and @Output       *)
(* property decorators (initializeBaseDef / updateBaseDefFromIOProp).      *)
(*                                                                         *)
(* JavaScript objects have identity, so the model keeps two heaps: `defs`  *)
(* holds the ngBaseDef objects (three references each) and `maps` holds    *)
(* the key->value objects they point to.  A heap is a function from the    *)
(* references allocated so far to the objects; a fresh reference is named  *)
(* after the class it is allocated for and a per-class serial number.      *)
(* NoRef and NoMap stand for "no such property" (undefined).              *)
(***************************************************************************)
EXTENDS Integers, Sequences, FiniteSets, TLC

\* ------------------------------------------------------------------ bounds
\* number of decorator applications in one run
MaxOps == 3

\* ------------------------------------------------------- the class universe
\* A <- B <- C is an inheritance chain, D is unrelated to all of them
Classes == {"A", "B", "C", "D"}
NoClass == "<none>"
\* Object.getPrototypeOf(constructor) for a class constructor
superOf(c) == CASE c = "B" -> "A" [] c = "C" -> "B" [] OTHER -> NoClass

\* property names that get decorated
Props == {"x", "y"}
\* the properties the classes declare as outputs
OutputProps == {"x"}
\* JavaScript undefined (an omitted decorator argument, args[0] of [])
Undefined == "<undefined>"
\* what a decorator may be called with: nothing, or a binding name
Args == {Undefined, "x", "y"}
\* a key the object does not have
Absent == "<absent>"
\* the object literal {}
EmptyMap == [k \in Props |-> Absent]
\* keys an object has (Object.keys / hasOwnProperty on the mapping)
Keys(m) == {k \in Props : m[k] # Absent}

\* the three fields of an ngBaseDef object
Cats == {"inputs", "outputs", "declaredInputs"}
\* undefined, where a reference to an ngBaseDef object is expected
NoRef == [cls |-> NoClass, gen |-> 0]
\* undefined, where a reference to a mapping object is expected
NoMap == [cls |-> NoClass, gen |-> 0, cat |-> "none"]
\* a heap with nothing allocated
EmptyHeap == [r \in {} |-> r]
\* the reference of the next ngBaseDef object allocated for class c
NewRef(st, c) ==
  [cls |-> c, gen |-> Cardinality({r \in DOMAIN st.defs : r.cls = c}) + 1]
\* the reference of the mapping object made for field cat of the ngBaseDef d
MapRef(d, cat) == [cls |-> d.cls, gen |-> d.gen, cat |-> cat]
\* a heap h with the objects of the heap g added
Extend(h, g) == g @@ h

\* ngBaseDef, defs, maps: the static property of each class and the heaps
\* nOps, last: how many decorators were applied, and the last application
\* own: the bindings applied to each class itself, as the decorators got them
\* current, defined: the class whose body is being evaluated (its property
\*   decorators run then) and the classes whose definition is complete
\* annotations: the metadata the last class decorator (Pipe, Component)
\*   applied to each class produced, with the argument it was called with
VARIABLES ngBaseDef, defs, maps, nOps, last, own, current, defined, annotations
vars == <<ngBaseDef, defs, maps, nOps, last, own, current, defined, annotations>>

\* the part of the state the decorators read and write
State == [ngBaseDef |-> ngBaseDef, defs |-> defs, maps |-> maps]

\* variant: only the class and its direct superclass are looked at
getNgBaseDef_OneLevel(st, c) ==
  IF c = NoClass THEN NoRef
  ELSE IF st.ngBaseDef[c] # NoRef THEN st.ngBaseDef[c]
  ELSE IF superOf(c) = NoClass THEN NoRef
  ELSE st.ngBaseDef[superOf(c)]

\* constructor.ngBaseDef: a property read, which walks the prototype chain
RECURSIVE getNgBaseDef(_, _)
getNgBaseDef(st, c) ==
  IF c = NoClass THEN NoRef
  ELSE IF st.ngBaseDef[c] # NoRef THEN st.ngBaseDef[c]
  ELSE getNgBaseDef(st, superOf(c))

\* variant: the test is made on the instance side (target), which never
\* carries the static property
hasOwnProperty_Never(st, c) == FALSE

\* variant: `NG_BASE_DEF in constructor`, which looks up the chain
hasOwnProperty_Inherited(st, c) == getNgBaseDef(st, c) # NoRef

\* constructor.hasOwnProperty(NG_BASE_DEF)
hasOwnProperty(st, c) == st.ngBaseDef[c] # NoRef

\* fillProperties(target, source): copy every own key of source into target
fillProperties(mp, target, source) ==
  IF source = NoMap \/ target = NoMap THEN mp
  ELSE [mp EXCEPT ![target] =
          [k \in Props |-> IF mp[source][k] # Absent THEN mp[source][k]
                                                      ELSE mp[target][k]]]

\* variant: the literal has no outputs,
\* constructor.ngBaseDef = {inputs: {}, declaredInputs: {}}
initializeBaseDef_OutputsMissing(st, c) ==
  LET inheritedBaseDef == getNgBaseDef(st, c)
      d == NewRef(st, c)
      baseDef == [cat \in Cats |->
                    IF cat = "outputs" THEN NoMap ELSE MapRef(d, cat)]
      fresh == Extend(st.maps,
                      [r \in {MapRef(d, cat) : cat \in Cats \ {"outputs"}} |-> EmptyMap])
      src == st.defs[inheritedBaseDef]
      filled == IF inheritedBaseDef # NoRef
                THEN fillProperties(
                       fillProperties(fresh, baseDef.inputs, src.inputs),
                       baseDef.declaredInputs, src.declaredInputs)
                ELSE fresh
  IN [ngBaseDef |-> [st.ngBaseDef EXCEPT ![c] = d],
      defs |-> Extend(st.defs, [r \in {d} |-> baseDef]),
      maps |-> filled]

\* variant: the outputs of the inherited ngBaseDef are not copied
initializeBaseDef_NoOutputs(st, c) ==
  LET inheritedBaseDef == getNgBaseDef(st, c)
      d == NewRef(st, c)
      baseDef == [cat \in Cats |-> MapRef(d, cat)]
      fresh == Extend(st.maps, [r \in {MapRef(d, cat) : cat \in Cats} |-> EmptyMap])
      src == st.defs[inheritedBaseDef]
      filled == IF inheritedBaseDef # NoRef
                THEN fillProperties(
                       fillProperties(fresh, baseDef.inputs, src.inputs),
                       baseDef.declaredInputs, src.declaredInputs)
                ELSE fresh
  IN [ngBaseDef |-> [st.ngBaseDef EXCEPT ![c] = d],
      defs |-> Extend(st.defs, [r \in {d} |-> baseDef]),
      maps |-> filled]

\* variant: the new ngBaseDef points at the inherited mapping objects
\* instead of copying their entries
initializeBaseDef_SharedMaps(st, c) ==
  LET inheritedBaseDef == getNgBaseDef(st, c)
      d == NewRef(st, c)
      baseDef == IF inheritedBaseDef # NoRef
                 THEN st.defs[inheritedBaseDef]
                 ELSE [cat \in Cats |-> MapRef(d, cat)]
  IN [ngBaseDef |-> [st.ngBaseDef EXCEPT ![c] = d],
      defs |-> Extend(st.defs, [r \in {d} |-> baseDef]),
      maps |-> Extend(st.maps, [r \in {MapRef(d, cat) : cat \in Cats} |-> EmptyMap])]

\* variant: constructor.ngBaseDef = inheritedBaseDef || {...}
initializeBaseDef_ReuseInherited(st, c) ==
  LET inheritedBaseDef == getNgBaseDef(st, c)
      d == NewRef(st, c)
      baseDef == [cat \in Cats |-> MapRef(d, cat)]
  IN IF inheritedBaseDef # NoRef
     THEN [st EXCEPT !.ngBaseDef[c] = inheritedBaseDef]
     ELSE [ngBaseDef |-> [st.ngBaseDef EXCEPT ![c] = d],
           defs |-> Extend(st.defs, [r \in {d} |-> baseDef]),
           maps |-> Extend(st.maps, [r \in {MapRef(d, cat) : cat \in Cats} |-> EmptyMap])]

\* variant: the three {} are one set of objects made once for the module and
\* used by every ngBaseDef
initializeBaseDef_SharedLiteral(st, c) ==
  LET d == NewRef(st, c)
      shared == [cls |-> "module", gen |-> 1]
      baseDef == [cat \in Cats |-> MapRef(shared, cat)]
      mp == IF MapRef(shared, "inputs") \in DOMAIN st.maps THEN st.maps
            ELSE Extend(st.maps,
                        [r \in {MapRef(shared, cat) : cat \in Cats} |-> EmptyMap])
  IN [ngBaseDef |-> [st.ngBaseDef EXCEPT ![c] = d],
      defs |-> Extend(st.defs, [r \in {d} |-> baseDef]),
      maps |-> mp]

\* variant: nothing is copied from the inherited ngBaseDef
initializeBaseDef_NoSeed(st, c) ==
  LET d == NewRef(st, c)
      baseDef == [cat \in Cats |-> MapRef(d, cat)]
  IN [ngBaseDef |-> [st.ngBaseDef EXCEPT ![c] = d],
      defs |-> Extend(st.defs, [r \in {d} |-> baseDef]),
      maps |-> Extend(st.maps, [r \in {MapRef(d, cat) : cat \in Cats} |-> EmptyMap])]

\* initializeBaseDef(target), target.constructor = c
initializeBaseDef(st, c) ==
  LET inheritedBaseDef == getNgBaseDef(st, c)
      d == NewRef(st, c)
      baseDef == [cat \in Cats |-> MapRef(d, cat)]
      fresh == Extend(st.maps, [r \in {MapRef(d, cat) : cat \in Cats} |-> EmptyMap])
      src == st.defs[inheritedBaseDef]
      filled == IF inheritedBaseDef # NoRef
                THEN fillProperties(
                       fillProperties(
                         fillProperties(fresh, baseDef.inputs, src.inputs),
                         baseDef.outputs, src.outputs),
                       baseDef.declaredInputs, src.declaredInputs)
                ELSE fresh
  IN [ngBaseDef |-> [st.ngBaseDef EXCEPT ![c] = d],
      defs |-> Extend(st.defs, [r \in {d} |-> baseDef]),
      maps |-> filled]

\* variant: the Input decorator is given the getter of declaredInputs
InputGetProp_Declared(baseDef) == baseDef.declaredInputs

\* baseDef => baseDef.inputs || {}   (NoMap: a throw-away object)
InputGetProp(baseDef) == baseDef.inputs

\* variant: the Output decorator is given the getter of the inputs
OutputGetProp_Inputs(baseDef) == baseDef.inputs

\* baseDef => baseDef.outputs || {}
OutputGetProp(baseDef) == baseDef.outputs

\* the getProp argument of updateBaseDefFromIOProp, named by its decorator
getProp(op, baseDef) ==
  IF op = "Input" THEN InputGetProp(baseDef) ELSE OutputGetProp(baseDef)

\* variant: a new ngBaseDef is made on every call
ensureDescriptor_Always(st, c) == initializeBaseDef(st, c)

\* variant: the superclass is given an ngBaseDef of its own first
ensureDescriptor_WithSuper(st, c) ==
  LET sup == superOf(c)
      st0 == IF sup # NoClass /\ ~hasOwnProperty(st, sup)
             THEN initializeBaseDef(st, sup) ELSE st
  IN IF ~hasOwnProperty(st0, c) THEN initializeBaseDef(st0, c) ELSE st0

\* variant: the condition of line 887 without its negation
ensureDescriptor_Inverted(st, c) ==
  IF hasOwnProperty(st, c) THEN initializeBaseDef(st, c) ELSE st

\* lines 885-889: the class owns an ngBaseDef after this
ensureDescriptor(st, c) ==
  IF ~hasOwnProperty(st, c) THEN initializeBaseDef(st, c) ELSE st

\* line 892 reads a property of baseDef: a TypeError when it is undefined
Throws(st, c) == getNgBaseDef(ensureDescriptor(st, c), c) = NoRef

\* variant: defProp[args[0]] = name, the direction declaredInputs uses
updateBaseDefFromIOProp_Reversed(op, st, c, name, arg) ==
  LET st1 == ensureDescriptor(st, c)
      baseDef == getNgBaseDef(st1, c)
      defProp == getProp(op, st1.defs[baseDef])
  IN IF defProp = NoMap \/ arg \notin Props THEN st1
     ELSE [st1 EXCEPT !.maps[defProp][arg] = name]

\* variant: if (!(name in defProp)) defProp[name] = args[0]
updateBaseDefFromIOProp_KeepFirst(op, st, c, name, arg) ==
  LET st1 == ensureDescriptor(st, c)
      baseDef == getNgBaseDef(st1, c)
      defProp == getProp(op, st1.defs[baseDef])
  IN IF defProp = NoMap \/ st1.maps[defProp][name] # Absent THEN st1
     ELSE [st1 EXCEPT !.maps[defProp][name] = arg]

\* variant: the binding is also written into the descriptor a direct
\* subclass owns (inheritance by live propagation)
updateBaseDefFromIOProp_Propagate(op, st, c, name, arg) ==
  LET st1 == ensureDescriptor(st, c)
      baseDef == getNgBaseDef(st1, c)
      defProp == getProp(op, st1.defs[baseDef])
      written == {defProp} \cup
                 {getProp(op, st1.defs[st1.ngBaseDef[d]]) :
                    d \in {e \in Classes : superOf(e) = c /\ st1.ngBaseDef[e] # NoRef}}
  IN IF baseDef = NoRef THEN st1
     ELSE IF defProp = NoMap THEN st1
     ELSE [st1 EXCEPT !.maps =
             [m \in DOMAIN st1.maps |->
                IF m \in written THEN [st1.maps[m] EXCEPT ![name] = arg]
                ELSE st1.maps[m]]]

\* variant: recording an entry that is already there removes it,
\* if (defProp[name] === args[0]) delete defProp[name]; else defProp[name] = args[0]
updateBaseDefFromIOProp_Toggle(op, st, c, name, arg) ==
  LET st1 == ensureDescriptor(st, c)
      baseDef == getNgBaseDef(st1, c)
      defProp == getProp(op, st1.defs[baseDef])
  IN IF baseDef = NoRef THEN st1
     ELSE IF defProp = NoMap THEN st1
     ELSE IF st1.maps[defProp][name] = arg
       THEN [st1 EXCEPT !.maps[defProp][name] = Absent]
     ELSE [st1 EXCEPT !.maps[defProp][name] = arg]

\* variant: the mapping is replaced by one holding only the new entry,
\* a sequence-like "latest first" record instead of a lookup table
updateBaseDefFromIOProp_ResetMapping(op, st, c, name, arg) ==
  LET st1 == ensureDescriptor(st, c)
      baseDef == getNgBaseDef(st1, c)
      defProp == getProp(op, st1.defs[baseDef])
  IN IF baseDef = NoRef THEN st1
     ELSE IF defProp = NoMap THEN st1
     ELSE [st1 EXCEPT !.maps[defProp] = [EmptyMap EXCEPT ![name] = arg]]

\* variant: a call without an alias removes the entry,
\* if (args[0] === undefined) delete defProp[name]
updateBaseDefFromIOProp_DeleteOnUndefined(op, st, c, name, arg) ==
  LET st1 == ensureDescriptor(st, c)
      baseDef == getNgBaseDef(st1, c)
      defProp == getProp(op, st1.defs[baseDef])
  IN IF baseDef = NoRef THEN st1
     ELSE IF defProp = NoMap THEN st1
     ELSE IF arg = Undefined THEN [st1 EXCEPT !.maps[defProp][name] = Absent]
     ELSE [st1 EXCEPT !.maps[defProp][name] = arg]

\* updateBaseDefFromIOProp(getProp)(target, name, ...args), args[0] = arg
\* (when line 892 throws, line 893 does not run)
updateBaseDefFromIOProp(op, st, c, name, arg) ==
  LET st1 == ensureDescriptor(st, c)
      baseDef == getNgBaseDef(st1, c)
      defProp == getProp(op, st1.defs[baseDef])
  IN IF baseDef = NoRef THEN st1
     ELSE IF defProp = NoMap THEN st1
     ELSE [st1 EXCEPT !.maps[defProp][name] = arg]

\* ------------------------------------------------ class decorator metadata
\* An object is a function from its possible keys to a value or Absent.
\* {...a, ...b}: the keys of b override those of a
Spread(a, b) == [k \in DOMAIN a |-> IF b[k] # Absent THEN b[k] ELSE a[k]]

\* the Pipe metadata objects a caller may supply ({name, pure?}); pure may
\* be left out, or be given as true, false or undefined
PipeObjects ==
  [name : {"p", "q"}, pure : {Absent, "true", "false", Undefined}]

\* variant: ({...p, pure: true})
PipeProps_SpreadFirst(p) ==
  Spread(p, [name |-> Absent, pure |-> "true"])

\* (p: Pipe) => ({pure: true, ...p})
PipeProps(p) ==
  Spread([name |-> Absent, pure |-> "true"], p)

\* ChangeDetectionStrategy
OnPush == "OnPush"
Default == "Default"

\* the Component metadata objects a caller may supply
ComponentObjects ==
  [selector : {Absent, "s"},
   changeDetection : {Absent, OnPush, Default, Undefined}]
\* the object {}
EmptyObject == [selector |-> Absent, changeDetection |-> Absent]
\* the argument list of Component: one object, or nothing
ComponentArgs ==
  [given : {TRUE}, obj : ComponentObjects] \cup {[given |-> FALSE, obj |-> EmptyObject]}

\* variant: ({...c, changeDetection: ChangeDetectionStrategy.Default})
ComponentProps_SpreadFirst(a) ==
  LET c == IF a.given THEN a.obj ELSE EmptyObject
  IN Spread(c, [selector |-> Absent, changeDetection |-> Default])

\* (c: Component = {}) => ({changeDetection: ChangeDetectionStrategy.Default, ...c})
ComponentProps(a) ==
  LET c == IF a.given THEN a.obj ELSE EmptyObject
  IN Spread([selector |-> Absent, changeDetection |-> Default], c)

\* the Directive metadata objects a caller may supply, and the argument
\* list of Directive: one object, or nothing
DirectiveObjects == [selector : {Absent, "s"}]
DirectiveArgs ==
  [given : {TRUE}, obj : DirectiveObjects]
    \cup {[given |-> FALSE, obj |-> [selector |-> Absent]]}

\* (dir: Directive = {}) => dir
DirectiveProps(a) == IF a.given THEN a.obj ELSE [selector |-> Absent]

\* the NgModule metadata objects a caller may supply
NgModuleObjects == [id : {Absent, "m"}]

\* (ngModule: NgModule) => ngModule
NgModuleProps(ngModule) == ngModule

\* R3_COMPILE_DIRECTIVE, R3_COMPILE_COMPONENT, R3_COMPILE_PIPE and
\* R3_COMPILE_NGMODULE (type, meta): the external compiler reads the
\* descriptors and leaves them as they are
R3_COMPILE(st, type, meta) == st

NoAnnotation == [kind |-> "none"]

NoCall == [op |-> "none", cls |-> NoClass, name |-> "", arg |-> Undefined]

Init ==
  /\ ngBaseDef = [c \in Classes |-> NoRef]
  /\ defs = EmptyHeap
  /\ maps = EmptyHeap
  /\ nOps = 0
  /\ last = NoCall
  /\ own = [c \in Classes |-> [cat \in {"inputs", "outputs"} |-> EmptyMap]]
  /\ current = NoClass
  /\ defined = {}
  /\ annotations = [c \in Classes |-> NoAnnotation]

\* @Input(arg) applied to property `name` of class c
Input(c, name, arg) ==
  /\ nOps < MaxOps
  /\ LET st == updateBaseDefFromIOProp("Input", State, c, name, arg)
     IN /\ ngBaseDef' = st.ngBaseDef
        /\ defs' = st.defs
        /\ maps' = st.maps
  /\ nOps' = nOps + 1
  /\ last' = [op |-> "Input", cls |-> c, name |-> name, arg |-> arg]
  /\ own' = [own EXCEPT ![c]["inputs"][name] = arg]
  /\ UNCHANGED <<current, defined, annotations>>

\* @Output(arg) applied to property `name` of class c
Output(c, name, arg) ==
  /\ nOps < MaxOps
  /\ LET st == updateBaseDefFromIOProp("Output", State, c, name, arg)
     IN /\ ngBaseDef' = st.ngBaseDef
        /\ defs' = st.defs
        /\ maps' = st.maps
  /\ nOps' = nOps + 1
  /\ last' = [op |-> "Output", cls |-> c, name |-> name, arg |-> arg]
  /\ own' = [own EXCEPT ![c]["outputs"][name] = arg]
  /\ UNCHANGED <<current, defined, annotations>>

Next ==
  \/ \E c \in Classes, name \in Props, arg \in Args : Input(c, name, arg)
  \/ \E c \in Classes, name \in OutputProps, arg \in Args : Output(c, name, arg)

Spec == Init /\ [][Next]_vars

\* --------------------------------------------------------- class decorators
\* @Pipe(p) applied to class c
PipeDecorate(c, p) ==
  /\ annotations' =
       [annotations EXCEPT ![c] = [kind |-> "Pipe", arg |-> p, meta |-> PipeProps(p)]]
  /\ LET st == R3_COMPILE(State, c, PipeProps(p))
     IN /\ ngBaseDef' = st.ngBaseDef
        /\ defs' = st.defs
        /\ maps' = st.maps
  /\ UNCHANGED <<nOps, last, own, current, defined>>

\* @Component(c) or @Component() applied to class c
ComponentDecorate(c, a) ==
  /\ annotations' =
       [annotations EXCEPT
          ![c] = [kind |-> "Component", arg |-> a, meta |-> ComponentProps(a)]]
  /\ LET st == R3_COMPILE(State, c, ComponentProps(a))
     IN /\ ngBaseDef' = st.ngBaseDef
        /\ defs' = st.defs
        /\ maps' = st.maps
  /\ UNCHANGED <<nOps, last, own, current, defined>>

\* @Directive(dir) or @Directive() applied to class c
DirectiveDecorate(c, a) ==
  /\ annotations' =
       [annotations EXCEPT
          ![c] = [kind |-> "Directive", arg |-> a, meta |-> DirectiveProps(a)]]
  /\ LET st == R3_COMPILE(State, c, DirectiveProps(a))
     IN /\ ngBaseDef' = st.ngBaseDef
        /\ defs' = st.defs
        /\ maps' = st.maps
  /\ UNCHANGED <<nOps, last, own, current, defined>>

\* @NgModule(m) applied to class c
NgModuleDecorate(c, m) ==
  /\ annotations' =
       [annotations EXCEPT
          ![c] = [kind |-> "NgModule", arg |-> m, meta |-> NgModuleProps(m)]]
  /\ LET st == R3_COMPILE(State, c, NgModuleProps(m))
     IN /\ ngBaseDef' = st.ngBaseDef
        /\ defs' = st.defs
        /\ maps' = st.maps
  /\ UNCHANGED <<nOps, last, own, current, defined>>

\* variant: HostBinding is given the processing function of Input,
\* makePropDecorator('HostBinding', ..., undefined, updateBaseDefFromIOProp(...))
HostBinding_AsInput(c, name, arg) ==
  /\ nOps < MaxOps
  /\ LET st == updateBaseDefFromIOProp("Input", State, c, name, arg)
     IN /\ ngBaseDef' = st.ngBaseDef
        /\ defs' = st.defs
        /\ maps' = st.maps
  /\ nOps' = nOps + 1
  /\ last' = [op |-> "HostBinding", cls |-> c, name |-> name, arg |-> arg]
  /\ UNCHANGED <<own, current, defined, annotations>>

\* @HostBinding(arg) applied to property `name` of class c: no processing
\* function is passed to makePropDecorator
HostBinding(c, name, arg) ==
  /\ nOps < MaxOps
  /\ nOps' = nOps + 1
  /\ last' = [op |-> "HostBinding", cls |-> c, name |-> name, arg |-> arg]
  /\ UNCHANGED <<ngBaseDef, defs, maps, own, current, defined, annotations>>

\* @HostListener(arg) applied to method `name` of class c (arg is the
\* event name): no processing function is passed to makePropDecorator
HostListener(c, name, arg) ==
  /\ nOps < MaxOps
  /\ nOps' = nOps + 1
  /\ last' = [op |-> "HostListener", cls |-> c, name |-> name, arg |-> arg]
  /\ UNCHANGED <<ngBaseDef, defs, maps, own, current, defined, annotations>>

\* the classes that carry a class decorator
Decorated == {"A", "B", "D"}

NextDecorators ==
  \/ \E c \in Decorated, p \in PipeObjects : PipeDecorate(c, p)
  \/ \E c \in Decorated, a \in ComponentArgs : ComponentDecorate(c, a)

SpecDecorators == Init /\ [][NextDecorators]_vars

\* ------------------------------------------------- all decorators together
\* the classes and the class that the mixed specification decorates
Annotated == {"A", "B"}
Declarable == {"B"}

NextAnnotations ==
  \/ \E c \in Annotated, name \in OutputProps, arg \in Args : Input(c, name, arg)
  \/ \E c \in Annotated, name \in OutputProps, arg \in Args : Output(c, name, arg)
  \/ \E c \in Annotated, name \in OutputProps, arg \in Args :
       HostBinding(c, name, arg)
  \/ \E c \in Annotated, name \in OutputProps, arg \in Args :
       HostListener(c, name, arg)
  \/ \E c \in Declarable, a \in DirectiveArgs : DirectiveDecorate(c, a)
  \/ \E c \in Declarable, a \in ComponentArgs :
       ~a.given /\ ComponentDecorate(c, a)
  \/ \E c \in Declarable, p \in PipeObjects :
       p.name = "p" /\ p.pure = Absent /\ PipeDecorate(c, p)
  \/ \E c \in Declarable, m \in NgModuleObjects : NgModuleDecorate(c, m)

SpecAnnotations == Init /\ [][NextAnnotations]_vars

\* ---------------------------------------- decorators run at class definition
\* `class c extends superOf(c) { ... }` starts: the superclass exists already
BeginClass(c) ==
  /\ current = NoClass
  /\ c \notin defined
  /\ superOf(c) = NoClass \/ superOf(c) \in defined
  /\ current' = c
  /\ UNCHANGED <<ngBaseDef, defs, maps, nOps, last, own, defined, annotations>>

\* the class body is done: all its property decorators have run
EndClass ==
  /\ current # NoClass
  /\ defined' = defined \cup {current}
  /\ current' = NoClass
  /\ UNCHANGED <<ngBaseDef, defs, maps, nOps, last, own, annotations>>

NextOrdered ==
  \/ \E c \in Classes : BeginClass(c)
  \/ EndClass
  \/ \E c \in Classes, name \in Props, arg \in Args :
       c = current /\ Input(c, name, arg)
  \/ \E c \in Classes, name \in OutputProps, arg \in Args :
       c = current /\ Output(c, name, arg)

\* every decorator of a class runs inside the definition of that class, and a
\* class is defined after its superclass
SpecOrdered == Init /\ [][NextOrdered]_vars

\* ------------------------------------------------- reading a descriptor
\* the mapping a decorator writes: Input -> inputs, Output -> outputs
CatOf(op) == IF op = "Input" THEN "inputs" ELSE "outputs"
\* the mapping `cat` of the ngBaseDef object with reference d
MapOf(d, cat) == maps[defs[d][cat]]
\* the mapping `cat` of the ngBaseDef that class c owns
Mapping(c, cat) == MapOf(ngBaseDef[c], cat)
\* the classes c extends, directly or not
RECURSIVE Ancestors(_)
Ancestors(c) ==
  IF superOf(c) = NoClass THEN {} ELSE {superOf(c)} \cup Ancestors(superOf(c))
Owns(c) == ngBaseDef[c] # NoRef
\* how many ngBaseDef objects were ever created
NumDefs == Cardinality(DOMAIN defs)
IsIO(call) == call.op \in {"Input", "Output"}

TypeOK ==
  /\ \A c \in Classes : ngBaseDef[c] \in DOMAIN defs \cup {NoRef}
  /\ \A d \in DOMAIN defs : \A cat \in Cats : defs[d][cat] \in DOMAIN maps
  /\ \A r \in DOMAIN maps : DOMAIN maps[r] = Props
  /\ nOps \in 0..MaxOps
  /\ current \in Classes \cup {NoClass}
  /\ defined \subseteq Classes

\* ======================================================================
\* C1: after @Input() / @Output() with no binding name on property p, the
\* class's inputs (outputs) mapping holds p -> p: the alias defaults to the
\* property name.
DefaultAliasIsPropertyName ==
  (IsIO(last) /\ last.arg = Undefined /\ Owns(last.cls))
    => Mapping(last.cls, CatOf(last.op))[last.name] = last.name

OmittedAliasRecorded ==
  /\ IsIO(last) /\ last.arg = Undefined
  /\ Owns(last.cls)
  /\ last.name \in Keys(Mapping(last.cls, CatOf(last.op)))

\* ======================================================================
\* C2: when a class without a descriptor of its own gets its first binding
\* and its superclass has a descriptor (own or inherited), the new
\* descriptor's inputs, outputs and declaredInputs hold exactly the
\* entries of the superclass's mappings of that moment, apart from the one
\* key the class's own binding writes.
SeededFromSuperclass ==
  [][\A c \in Classes :
       (~Owns(c) /\ getNgBaseDef(State, c) # NoRef /\ last'.cls = c)
         => /\ Owns(c)'
            /\ \A cat \in Cats : \A k \in Props :
                 (cat # CatOf(last'.op) \/ k # last'.name)
                   => Mapping(c, cat)'[k] = MapOf(getNgBaseDef(State, c), cat)[k]
    ]_vars

\* a subclass whose first binding left an inherited entry in the other
\* category visible in its own descriptor
SeededDescriptorReached ==
  /\ nOps = 2
  /\ last.cls = "B" /\ last.op = "Input" /\ last.name = "y"
  /\ Owns("A") /\ Owns("B")
  /\ Mapping("A", "outputs")["x"] = "y"
  /\ Mapping("B", "outputs")["x"] = "y"
  /\ Keys(Mapping("B", "inputs")) = {"y"}

\* ======================================================================
\* C3: inheritance is a snapshot: once a subclass owns its descriptor, a
\* binding recorded on one of its ancestors changes nothing in the
\* subclass's descriptor, neither its identity nor any of its mappings.
SnapshotInheritance ==
  [][\A c \in Classes :
       (Owns(c) /\ last'.cls \in Ancestors(c))
         => /\ ngBaseDef'[c] = ngBaseDef[c]
            /\ \A cat \in Cats : Mapping(c, cat)' = Mapping(c, cat)
    ]_vars

\* A recorded x, B then recorded an output of its own (inheriting x), and
\* A has just added y: B's snapshot does not have it
SuperclassChangedAfterSnapshot ==
  /\ nOps = 3
  /\ last = [op |-> "Input", cls |-> "A", name |-> "y", arg |-> "y"]
  /\ Owns("A") /\ Owns("B")
  /\ Mapping("A", "inputs") = [k \in Props |-> k]
  /\ Keys(Mapping("A", "outputs")) = {}
  /\ Mapping("B", "inputs") = [EmptyMap EXCEPT !["x"] = "x"]
  /\ Keys(Mapping("B", "outputs")) # {}

\* ======================================================================
\* C4: creating a subclass's descriptor and recording a binding on the
\* subclass never changes an ancestor: the ancestor keeps its descriptor
\* (or keeps having none) and all three of its mappings.
SuperclassUntouched ==
  [][\A a \in Ancestors(last'.cls) :
       /\ ngBaseDef'[a] = ngBaseDef[a]
       /\ Owns(a) => \A cat \in Cats : Mapping(a, cat)' = Mapping(a, cat)
    ]_vars

\* Base holds name -> name (here x -> "x") and Derived has just recorded
\* the same property under another alias
DerivedRecordedOverBase ==
  /\ last = [op |-> "Input", cls |-> "B", name |-> "x", arg |-> "y"]
  /\ Owns("A") /\ Owns("B")
  /\ Mapping("A", "inputs")["x"] = "x"

\* ======================================================================
\* C5: if the superclass's descriptor has x -> "x" and the subclass records
\* x with alias "y", the subclass's descriptor has x -> "y" and the entry
\* is the only one for x; for inputs and for outputs alike.
OverrideSemantics ==
  [][\A c \in Classes : \A cat \in {"inputs", "outputs"} :
       LET sup == getNgBaseDef([State EXCEPT !.ngBaseDef[c] = NoRef], c) IN
       ( /\ last'.cls = c /\ CatOf(last'.op) = cat /\ last'.arg # Undefined
         /\ sup # NoRef
         /\ MapOf(sup, cat)[last'.name] \notin {Absent, last'.arg} )
         => /\ Owns(c)'
            /\ Mapping(c, cat)'[last'.name] = last'.arg
    ]_vars

OverrideReached ==
  /\ nOps = 2
  /\ last = [op |-> "Output", cls |-> "C", name |-> "x", arg |-> "y"]
  /\ Owns("A") /\ ~Owns("B") /\ Owns("C")
  /\ Mapping("A", "outputs")["x"] = "x"
  /\ Mapping("C", "outputs")["x"] = "y"

\* ======================================================================
\* C6: a descriptor is created at most once per class: a class that owns a
\* descriptor keeps that very object (same reference, same mapping
\* objects), every entry other than the one a call writes is retained, and
\* a call creates a descriptor only for a class that owned none.
DescriptorCreatedOnce ==
  [][IsIO(last') =>
       /\ \A c \in Classes :
            Owns(c) => /\ ngBaseDef'[c] = ngBaseDef[c]
                       /\ defs'[ngBaseDef[c]] = defs[ngBaseDef[c]]
                       /\ \A cat \in Cats : \A k \in Props :
                            (c # last'.cls \/ cat # CatOf(last'.op)
                               \/ k # last'.name)
                              => Mapping(c, cat)'[k] = Mapping(c, cat)[k]
       /\ NumDefs' = NumDefs + (IF Owns(last'.cls) THEN 0 ELSE 1)
    ]_vars

\* three bindings on one class, one descriptor in the whole program
ThreeBindingsOneDescriptor ==
  /\ nOps = 3 /\ last.cls = "A" /\ NumDefs = 1 /\ Owns("A")
  /\ Keys(Mapping("A", "inputs")) = Props
  /\ Keys(Mapping("A", "outputs")) # {}

\* ======================================================================
\* C7: ensureDescriptor is idempotent: on a class that owns a descriptor it
\* changes nothing (same descriptor, same mappings), so a second call in a
\* row gives the state of the first.
EnsureDescriptorIdempotent ==
  \A c \in Classes :
    /\ hasOwnProperty(State, c) => ensureDescriptor(State, c) = State
    /\ ensureDescriptor(ensureDescriptor(State, c), c) = ensureDescriptor(State, c)

\* the last call found its class already owning a non-empty descriptor
EnsureOnOwnerReached ==
  /\ nOps = 2 /\ last.cls = "B" /\ last.op = "Output"
  /\ NumDefs = 1 /\ Owns("B")
  /\ Keys(Mapping("B", "inputs")) # {}

\* ======================================================================
\* C8: after recordBinding(class, p, alias, category) the class owns a
\* descriptor whose mapping of that category holds p -> the alias the call
\* was given, whatever entry for p was there before (the omitted alias is
\* stored as given; what an omitted alias stands for is C1).
RecordBindingStoresAlias ==
  IsIO(last) => /\ Owns(last.cls)
                /\ Mapping(last.cls, CatOf(last.op))[last.name] = last.arg

\* three calls on the same property of one class, the last one stored
LastBindingStored ==
  /\ nOps = 3 /\ NumDefs = 1
  /\ last = [op |-> "Input", cls |-> "D", name |-> "x", arg |-> "y"]
  /\ Keys(Mapping("D", "inputs")) = {"x"}
  /\ Keys(Mapping("D", "outputs")) = {}

\* ======================================================================
\* C9: categories are independent: an Input call leaves the outputs and
\* declaredInputs of its class as they were (as seeded, when the call
\* creates the descriptor), an Output call leaves inputs and declaredInputs.
CategoriesIndependent ==
  [][IsIO(last') =>
       LET c == last'.cls
           before == getNgBaseDef(State, c)
       IN \A cat \in Cats \ {CatOf(last'.op)} :
            /\ ngBaseDef'[c] # NoRef
            /\ maps'[defs'[ngBaseDef'[c]][cat]] =
                 IF before = NoRef THEN EmptyMap ELSE MapOf(before, cat)
    ]_vars

\* an Output call on a class whose inputs hold an entry for the same name
OutputAfterInputReached ==
  /\ last.op = "Output" /\ last.cls = "A" /\ last.name = "x" /\ last.arg = "y"
  /\ Owns("A")
  /\ Mapping("A", "inputs")["x"] = "x"

\* ======================================================================
\* C10: ownership is tested on the class itself: the first binding of a
\* class that only inherits a descriptor creates a new descriptor with new
\* mapping objects, owned by that class, writes the binding there and
\* leaves the ancestor's descriptor as it was.
OwnershipTestedDirectly ==
  [][\A c \in Classes :
       LET anc == getNgBaseDef(State, c) IN
       (~Owns(c) /\ anc # NoRef /\ last'.cls = c)
         => /\ ngBaseDef'[c] \in DOMAIN defs' \ DOMAIN defs
            /\ \A cat \in Cats :
                 defs'[ngBaseDef'[c]][cat] \in DOMAIN maps' \ DOMAIN maps
            /\ \E cat \in Cats :
                 /\ cat = CatOf(last'.op)
                 /\ Mapping(c, cat)'[last'.name] = last'.arg
            /\ defs'[anc] = defs[anc]
            /\ \A cat \in Cats : maps'[defs[anc][cat]] = maps[defs[anc][cat]]
    ]_vars

\* C recorded a binding while only A, two levels up, owned a descriptor
InheritedOnlyThenOwned ==
  /\ nOps = 2
  /\ last = [op |-> "Input", cls |-> "C", name |-> "y", arg |-> "x"]
  /\ Owns("A") /\ ~Owns("B") /\ Owns("C")
  /\ Mapping("A", "inputs")["y"] = Absent
  /\ Mapping("C", "inputs")["y"] = "x"

\* ======================================================================
\* the bindings of cat that class c and its ancestors were given, a nearer
\* class overriding a farther one; nothing is ever given to declaredInputs
RECURSIVE Merged(_, _)
Merged(c, cat) ==
  IF c = NoClass \/ cat \notin DOMAIN own[c] THEN EmptyMap
  ELSE [k \in Props |-> IF own[c][cat][k] # Absent
                        THEN own[c][cat][k]
                        ELSE Merged(superOf(c), cat)[k]]

\* C11: when the decorators of a class run during its definition and a
\* superclass is defined before its subclasses, then whenever no class
\* definition is under way every class that owns a descriptor has, in
\* each category, the bindings of all its ancestors overridden by nearer
\* classes and finally by its own.
CompleteWhenDefined ==
  current = NoClass
    => \A c \in Classes :
         Owns(c) => \A cat \in Cats : Mapping(c, cat) = Merged(c, cat)

\* A, B and C were defined in that order with one binding each; C holds
\* A's output and B's input besides its own
ChainDefinedInOrder ==
  /\ current = NoClass /\ defined = {"A", "B", "C"} /\ nOps = 3
  /\ Owns("A") /\ Owns("B") /\ Owns("C")
  /\ Keys(own["A"]["outputs"]) = {"x"} /\ Keys(own["A"]["inputs"]) = {}
  /\ Keys(own["B"]["inputs"]) = {"x"}
  /\ Keys(own["C"]["inputs"]) = {"y"}
  /\ Keys(Mapping("C", "inputs")) = {"x", "y"}
  /\ Keys(Mapping("C", "outputs")) = {"x"}

\* ======================================================================
\* the nearest proper ancestor of c that owns a descriptor, if any
RECURSIVE InheritedFrom(_)
InheritedFrom(c) ==
  IF superOf(c) = NoClass THEN NoClass
  ELSE IF Owns(superOf(c)) THEN superOf(c)
  ELSE InheritedFrom(superOf(c))

\* C12: the descriptor used for seeding may be one the superclass only
\* inherits: when the direct superclass of c owns no descriptor but sees
\* one of an ancestor, the first binding of c seeds c's descriptor with
\* every entry of that ancestor's inputs, outputs and declaredInputs, and
\* the superclass still owns none afterwards.
SeededThroughSuperclass ==
  [][\A c \in Classes :
       LET sup == superOf(c)
           anc == InheritedFrom(c) IN
       ( /\ last'.cls = c /\ ~Owns(c)
         /\ sup # NoClass /\ ~Owns(sup) /\ anc # NoClass )
         => /\ ngBaseDef'[c] # NoRef
            /\ ngBaseDef'[sup] = NoRef
            /\ \A cat \in Cats : \A k \in Keys(Mapping(anc, cat)) :
                 (cat # CatOf(last'.op) \/ k # last'.name)
                   => Mapping(c, cat)'[k] = Mapping(anc, cat)[k]
    ]_vars

\* A recorded an input, B nothing, and C has just recorded an output: C
\* holds A's input
SeededAcrossTwoLevels ==
  /\ nOps = 2 /\ last.cls = "C" /\ last.op = "Output"
  /\ Owns("A") /\ ~Owns("B") /\ Owns("C")
  /\ Mapping("A", "inputs")["y"] = "x"
  /\ Mapping("C", "inputs")["y"] = "x"

\* ======================================================================
\* the bindings applied to class c itself
OwnBindings(c) == Keys(own[c]["inputs"]) \cup Keys(own[c]["outputs"])

\* C13: descriptor creation is lazy: a class owns a descriptor if and only
\* if at least one input or output binding was recorded on that class
\* itself, whatever was recorded on its ancestors or descendants.
LazyCreation ==
  \A c \in Classes : Owns(c) <=> OwnBindings(c) # {}

\* A and C have bindings and descriptors, B between them has neither
MiddleClassOwnsNothing ==
  /\ nOps = 3
  /\ OwnBindings("A") # {} /\ OwnBindings("C") = Props /\ OwnBindings("B") = {}
  /\ Owns("A") /\ ~Owns("B") /\ Owns("C") /\ ~Owns("D")

\* ======================================================================
\* C14: ensureDescriptor and recordBinding are total: in every reachable
\* state ensureDescriptor, applied to any class (with or without
\* superclass, with an own, an inherited or no descriptor), does not throw
\* and leaves the class owning a descriptor; and every Input or Output
\* call, whatever its class, property name and alias (the omitted one
\* included), has ended with the class owning a descriptor that has its
\* three mappings.
OperationsTotal ==
  /\ \A c \in Classes :
       /\ ~Throws(State, c)
       /\ ensureDescriptor(State, c).ngBaseDef[c]
            \in DOMAIN ensureDescriptor(State, c).defs
  /\ IsIO(last) =>
       /\ ngBaseDef[last.cls] \in DOMAIN defs
       /\ \A cat \in Cats : defs[ngBaseDef[last.cls]][cat] \in DOMAIN maps
       /\ last.name \in Keys(Mapping(last.cls, CatOf(last.op)))

\* calls were made on a class without superclass and, with the alias
\* omitted, on a class that only sees an inherited descriptor
CalledOnEveryKindOfClass ==
  /\ nOps = 3 /\ last.cls = "C" /\ last.arg = Undefined
  /\ Owns("A") /\ ~Owns("B") /\ Owns("C") /\ Owns("D")

PipePureByDefault ==
  \A c \in Classes :
    annotations[c].kind = "Pipe" =>
      /\ annotations[c].meta.pure =
           IF annotations[c].arg.pure = Absent THEN "true"
           ELSE annotations[c].arg.pure
      /\ annotations[c].meta.name = annotations[c].arg.name

\* one pipe was declared without pure and another with pure: false
PipesDeclared ==
  /\ annotations["A"].kind = "Pipe" /\ annotations["D"].kind = "Pipe"
  /\ annotations["A"].arg = [name |-> "p", pure |-> Absent]
  /\ annotations["A"].meta.pure = "true"
  /\ annotations["D"].arg = [name |-> "q", pure |-> "false"]

\* ======================================================================
\* C17: the metadata the Component decorator produces has changeDetection
\* = ChangeDetectionStrategy.Default when the supplied object has no
\* changeDetection or no object is supplied, has the supplied
\* changeDetection otherwise, and has every other supplied field unchanged.
ComponentDefaultChangeDetection ==
  \A c \in Classes :
    annotations[c].kind = "Component" =>
      LET a == annotations[c].arg
          m == annotations[c].meta IN
      /\ m.changeDetection =
           IF ~a.given \/ a.obj.changeDetection = Absent THEN Default
           ELSE a.obj.changeDetection
      /\ \A k \in DOMAIN m \ {"changeDetection"} :
           m[k] = IF a.given THEN a.obj[k] ELSE Absent

\* components were declared with no metadata, with a selector only and
\* with OnPush
ComponentsDeclared ==
  /\ \A c \in {"A", "B", "D"} : annotations[c].kind = "Component"
  /\ ~annotations["A"].arg.given
  /\ annotations["A"].meta.changeDetection = Default
  /\ annotations["B"].arg.obj = [selector |-> "s", changeDetection |-> Absent]
  /\ annotations["D"].arg.obj = [selector |-> "s", changeDetection |-> OnPush]
  /\ annotations["D"].meta.changeDetection = OnPush

\* ======================================================================
\* C18: the inheritance snapshot is taken at the subclass's first recorded
\* binding: the descriptor that binding creates holds every binding
\* recorded on the superclass up to that moment (apart from the key the
\* call itself writes), and a binding recorded on the superclass once the
\* subclass owns its descriptor does not change the subclass's entry for
\* that property.
SnapshotAtFirstBinding ==
  [][\A c \in Classes :
       LET s == superOf(c) IN
       (s # NoClass /\ IsIO(last')) =>
         /\ (~Owns(c) /\ last'.cls = c) =>
              \A cat \in {"inputs", "outputs"} : \A k \in Props :
                (own[s][cat][k] # Absent
                   /\ (cat # CatOf(last'.op) \/ k # last'.name))
                  => maps'[defs'[ngBaseDef'[c]][cat]][k] = own[s][cat][k]
         /\ (Owns(c) /\ last'.cls = s) =>
              \E cat \in Cats :
                /\ cat = CatOf(last'.op)
                /\ maps'[defs'[ngBaseDef'[c]][cat]][last'.name]
                     = Mapping(c, cat)[last'.name]
    ]_vars

\* A recorded x, B then recorded its first binding y (its descriptor got
\* A's x), and A has just recorded x again under another alias, which B's
\* descriptor does not show
BeforeAndAfterFirstBinding ==
  /\ nOps = 3
  /\ last = [op |-> "Input", cls |-> "A", name |-> "x", arg |-> "y"]
  /\ own["B"]["inputs"] = [EmptyMap EXCEPT !["y"] = "y"]
  /\ Keys(own["B"]["outputs"]) = {}
  /\ Mapping("A", "inputs") = [EmptyMap EXCEPT !["x"] = "y"]
  /\ Mapping("B", "inputs") = [k \in Props |-> k]

\* ======================================================================
\* C19: Input and Output never write declaredInputs: in every reachable
\* state the declaredInputs mapping of every descriptor is empty.
DeclaredInputsEmpty ==
  \A d \in DOMAIN defs : Keys(maps[defs[d]["declaredInputs"]]) = {}

\* three descriptors exist, one seeded from the other along A <- B <- C,
\* each with an input recorded
DescriptorsAlongChain ==
  /\ nOps = 3
  /\ \A c \in {"A", "B", "C"} : Owns(c) /\ Keys(own[c]["inputs"]) # {}
  /\ \A c \in {"A", "B", "C"} : Keys(Mapping(c, "declaredInputs")) = {}
  /\ Keys(Mapping("C", "inputs")) = Props

\* ======================================================================
\* C20: descriptors only grow: in every step a class that owns a
\* descriptor still owns one afterwards, and each of its inputs, outputs
\* and declaredInputs mappings has afterwards every key it had before.
DescriptorsOnlyGrow ==
  [][\A c \in Classes :
       Owns(c) =>
         /\ ngBaseDef'[c] # NoRef
         /\ \A cat \in Cats :
              Keys(Mapping(c, cat)) \subseteq Keys(maps'[defs'[ngBaseDef'[c]][cat]])
    ]_vars

\* three inputs were recorded on A over two properties, the last one
\* without an alias: an entry was written twice and both keys are there
OverwrittenNotRemoved ==
  /\ nOps = 3
  /\ last = [op |-> "Input", cls |-> "A", name |-> "x", arg |-> Undefined]
  /\ \A c \in Classes \ {"A"} : ~Owns(c)
  /\ Keys(Mapping("A", "inputs")) = Props
  /\ Keys(Mapping("A", "outputs")) = {}

\* the calls a decorator can make on one class
Calls == [op : {"Input"}, name : Props, arg : Args]
           \cup [op : {"Output"}, name : OutputProps, arg : Args]
\* the state after call q on class c in state st
Apply(st, c, q) == updateBaseDefFromIOProp(q.op, st, c, q.name, q.arg)
\* the state after the step
StateNext == [ngBaseDef |-> ngBaseDef', defs |-> defs', maps |-> maps']

\* the inheritance chain A <- B <- C, without the unrelated class D
Chain == {"A", "B", "C"}

NextChain ==
  \/ \E c \in Chain, name \in Props, arg \in Args : Input(c, name, arg)
  \/ \E c \in Chain, name \in OutputProps, arg \in Args : Output(c, name, arg)

\* Input and Output applied in any order to the classes of the chain
SpecChain == Init /\ [][NextChain]_vars

\* ======================================================================
\* C21: for the call p a step makes on class c and any other call q on c:
\* if p and q differ in property name or in category, p then q and q then
\* p give the same descriptors; if they have the same property name and
\* category and different aliases, the two orders give different ones.
NonCollidingBindingsCommute ==
  [][IsIO(last') =>
       \E c \in Classes, p \in Calls :
         /\ c = last'.cls
         /\ p = [op |-> last'.op, name |-> last'.name, arg |-> last'.arg]
         /\ \A q \in Calls :
              \E pq \in {Apply(StateNext, c, q)}, sq \in {Apply(State, c, q)} :
                \E qp \in {Apply(sq, c, p)} :
                  IF q.op # p.op \/ q.name # p.name THEN pq = qp
                  ELSE q.arg # p.arg => pq # qp
    ]_vars

\* A recorded input x and then input y under swapped aliases: the
\* descriptor is the one the other order gives
TwoPropertiesRecorded ==
  /\ nOps = 2
  /\ last = [op |-> "Input", cls |-> "A", name |-> "y", arg |-> "x"]
  /\ Mapping("A", "inputs") = [k \in Props |-> IF k = "x" THEN "y" ELSE "x"]
  /\ State = Apply(Apply([ngBaseDef |-> [c \in Classes |-> NoRef],
                          defs |-> EmptyHeap, maps |-> EmptyHeap],
                         "A", [op |-> "Input", name |-> "y", arg |-> "x"]),
                   "A", [op |-> "Input", name |-> "x", arg |-> "y"])

\* the descriptor class c owns in state st, as its three mappings
\* (NoRef when it owns none)
DescriptorOf(st, c) ==
  IF st.ngBaseDef[c] = NoRef THEN <<NoRef>>
  ELSE <<st.ngBaseDef[c],
         [cat \in Cats |-> st.maps[st.defs[st.ngBaseDef[c]][cat]]]>>

\* ======================================================================
\* C22: recording a binding is idempotent: applying the call a step has
\* just made once more leaves every class with the same descriptor and the
\* same mappings, and a step that repeats the previous call changes none.
RecordBindingIdempotent ==
  [][IsIO(last') =>
       /\ \E again \in {updateBaseDefFromIOProp(last'.op, StateNext, last'.cls,
                                                last'.name, last'.arg)} :
            \A c \in Classes : DescriptorOf(again, c) = DescriptorOf(StateNext, c)
       /\ last' = last =>
            \A c \in Classes : DescriptorOf(StateNext, c) = DescriptorOf(State, c)
    ]_vars

\* input x of B was recorded twice and nothing else: B's descriptor is
\* the one a single call leaves
SameBindingTwice ==
  /\ nOps = 2
  /\ last = [op |-> "Input", cls |-> "B", name |-> "x", arg |-> "y"]
  /\ \A c \in Classes \ {"B"} : ~Owns(c)
  /\ Mapping("B", "inputs") = [EmptyMap EXCEPT !["x"] = "y"]
  /\ \A cat \in {"outputs", "declaredInputs"} : Keys(Mapping("B", cat)) = {}

\* ======================================================================
\* C23: only Input and Output record bindings: a step made by HostBinding,
\* HostListener, Directive, Component, Pipe or NgModule gives no class a
\* descriptor, takes none away and changes no entry of the inputs, outputs
\* and declaredInputs of the descriptors there are.
OnlyInputOutputQualify ==
  [][~(nOps' # nOps /\ IsIO(last')) =>
       /\ ngBaseDef' = ngBaseDef
       /\ \A c \in Classes :
            Owns(c) =>
              \A cat \in Cats :
                maps'[defs'[ngBaseDef'[c]][cat]] = Mapping(c, cat)
    ]_vars

\* B recorded an input and was declared a component, and A, which has no
\* descriptor, has just got a host binding
HostBindingAfterInput ==
  /\ nOps = 2
  /\ last = [op |-> "HostBinding", cls |-> "A", name |-> "x", arg |-> Undefined]
  /\ ~Owns("A") /\ Owns("B")
  /\ Mapping("B", "inputs")["x"] = "y"
  /\ annotations["B"].kind = "Component"

\* ======================================================================
\* C24: every ngBaseDef has its inputs, outputs and declaredInputs objects,
\* so the accessors of Input and Output never fall back to a throw-away
\* object, and the last alias recorded on a class for a property is in
\* the mapping of the descriptor the class owns.
AllMappingsPresent ==
  /\ \A d \in DOMAIN defs : \A cat \in Cats :
       defs[d][cat] # NoMap /\ defs[d][cat] \in DOMAIN maps
  /\ \A c \in Classes :
       Owns(c) => \A op \in {"Input", "Output"} :
                    getProp(op, defs[ngBaseDef[c]]) # NoMap
  /\ \A c \in Classes : \A cat \in {"inputs", "outputs"} : \A k \in Props :
       own[c][cat][k] # Absent
         => Owns(c) /\ Mapping(c, cat)[k] = own[c][cat][k]

\* C, whose superclasses own nothing, recorded an output and two inputs:
\* all three went into its descriptor
OutputAndInputsKept ==
  /\ nOps = 3
  /\ Owns("C") /\ \A c \in Classes \ {"C"} : ~Owns(c)
  /\ Mapping("C", "outputs") = [EmptyMap EXCEPT !["x"] = "y"]
  /\ Mapping("C", "inputs") = [k \in Props |-> k]
  /\ Keys(Mapping("C", "declaredInputs")) = {}
====
